---- MODULE Spec2Model ----
(***************************************************************************)
(* A model of cura/Settings/CuraStackBuilder.py: CuraStackBuilder builds   *)
(* a GlobalStack and its ExtruderStacks from a machine definition and      *)
(* registers them in the ContainerRegistry.  Objects live in a heap and    *)
(* are referred to by their index; the registry is the sequence of the     *)
(* references added to it, in the order of addition.  createMachine runs   *)
(* as a process whose program counter walks the statements of the code.    *)
(***************************************************************************)
EXTENDS Naturals, Sequences, FiniteSets, TLC

\* How many createMachine calls a behaviour makes.
MaxCalls == 2

\* The callers of createMachine; Init activates one or both.
Procs == {"A", "B"}

\* The names a caller asks for ("" is the empty name).
Names == {"", "My Printer", "ext_l"}

\* None of Python, where a string is expected, and the unset reference.
NoStr == ""
NullRef == 0

(***************************************************************************)
(* The machine definitions of the registry and their metadata, as          *)
(* createMachine reads them.  machine_extruder_trains keeps the order of   *)
(* the dict's items.  material_diameter is in hundredths of a millimetre.  *)
(***************************************************************************)
Meta(n, hv, pvn, hm, dia, pm, pqt, trains) ==
    [name |-> n, has_variants |-> hv, preferred_variant_name |-> pvn,
     has_materials |-> hm, material_diameter |-> dia, preferred_material |-> pm,
     preferred_quality_type |-> pqt, machine_extruder_trains |-> trains]

TwoTrains == << <<"0", "ext_l">>, <<"1", "ext_r">> >>

MachineDefinitions ==
    [um3 |-> Meta("Ultimaker 3", TRUE, "AA", TRUE, 285, "pla", "normal", TwoTrains),
     um2 |-> Meta("Ultimaker 2", FALSE, NoStr, FALSE, 285, NoStr, "normal",
                  << <<"0", "ext_l">> >>),
     um2p |-> Meta("Ultimaker 2+", TRUE, NoStr, TRUE, 175, "pla", "normal",
                   << <<"0", "ext_l">> >>),
     bad_variant |-> Meta("Bad variant", TRUE, "ZZ", TRUE, 285, "pla", "normal", TwoTrains),
     bad_material |-> Meta("Bad material", FALSE, "AA", TRUE, 175, "abs", "normal", TwoTrains),
     bad_first |-> Meta("Bad first", TRUE, "AA", FALSE, 285, NoStr, "normal",
                        << <<"1", "ext_l">>, <<"0", "ext_r">> >>),
     bad_second |-> Meta("Bad second", TRUE, "AA", TRUE, 285, "pla", "normal",
                         << <<"0", "ext_l">>, <<"1", "ext_l">> >>),
     bad_quality |-> Meta("Bad quality", FALSE, NoStr, FALSE, 285, NoStr, "draft", TwoTrains),
     bad_quality_ext |-> Meta("Bad extruder quality", FALSE, NoStr, FALSE, 285, NoStr, "fine",
                              TwoTrains)]

MachineDefinitionIds == DOMAIN MachineDefinitions

\* The extruder definitions of the registry: their name and position metadata.
ExtruderDefinitions ==
    [ext_l |-> [name |-> "Left extruder", position |-> "0"],
     ext_r |-> [name |-> "Right extruder", position |-> "1"]]

ExtruderDefinitionIds == DOMAIN ExtruderDefinitions

\* The definition ids a caller passes; "ghost" is registered nowhere.
DefinitionIds == MachineDefinitionIds \cup {"ghost"}

(***************************************************************************)
(* Objects.  One record shape serves definitions, instance containers and  *)
(* stacks; a field an object does not have holds NoStr, NullRef or <<>>.   *)
(***************************************************************************)
NoSlots ==
    [definitionChanges |-> NullRef, variant |-> NullRef, material |-> NullRef,
     quality |-> NullRef, qualityChanges |-> NullRef, userChanges |-> NullRef]

SlotNames == DOMAIN NoSlots

Object(k, i, n, t) ==
    [kind |-> k, id |-> i, name |-> n, type |-> t, definition |-> NoStr,
     machine |-> NoStr, extruder |-> NoStr, position |-> NoStr,
     slots |-> NoSlots, extruders |-> <<>>, nextStack |-> NullRef]

SeqOfSet(S, f(_)) ==
    LET RECURSIVE Build(_)
        Build(T) == IF T = {} THEN <<>>
                    ELSE LET x == CHOOSE y \in T : TRUE
                         IN <<f(x)>> \o Build(T \ {x})
    IN Build(S)

MachineDefinitionObject(d) == Object("definition", d, MachineDefinitions[d].name, "machine")

ExtruderDefinitionObject(d) ==
    [Object("definition", d, ExtruderDefinitions[d].name, "extruder")
        EXCEPT !.position = ExtruderDefinitions[d].position]

InstanceObject(i) == Object("instance", i[1], i[1], i[2])

\* The instance containers the application and the managers hold before any
\* machine is created: the empty placeholders, the variants, the materials, the
\* quality profiles.
LoadedContainers ==
    << <<"empty_variant", "variant">>, <<"empty_material", "material">>,
       <<"empty_quality", "quality">>, <<"empty_quality_changes", "quality_changes">>,
       <<"var_AA", "variant">>,
       <<"pla_AA", "material">>, <<"pla_generic", "material">>,
       <<"pla_175_generic", "material">>,
       <<"normal_global", "quality">>, <<"normal_0", "quality">>, <<"normal_1", "quality">>,
       <<"fine_global", "quality">>, <<"fine_0", "quality">> >>

InitHeap ==
    SeqOfSet(MachineDefinitionIds, MachineDefinitionObject)
    \o SeqOfSet(ExtruderDefinitionIds, ExtruderDefinitionObject)
    \o [k \in DOMAIN LoadedContainers |-> InstanceObject(LoadedContainers[k])]

\* The reference of a container loaded at start.
Loaded(id) == CHOOSE r \in DOMAIN InitHeap : InitHeap[r].id = id

empty_variant_container == Loaded("empty_variant")
empty_material_container == Loaded("empty_material")
empty_quality_container == Loaded("empty_quality")
empty_quality_changes_container == Loaded("empty_quality_changes")

VARIABLES
    heap,       \* every object created so far, by reference
    registry,   \* ContainerRegistry: the references added, in order
    run,        \* per caller: the frame of its createMachine call
    calls,      \* how many createMachine calls were made
    active      \* the callers that may call

vars == <<heap, registry, run, calls, active>>

(***************************************************************************)
(* ContainerRegistry (UM.Settings.ContainerRegistry and                    *)
(* CuraContainerRegistry), as the builder uses it.                         *)
(***************************************************************************)
Registered(reg) == {reg[k] : k \in DOMAIN reg}

RegisteredIds(h, reg) == {h[r].id : r \in Registered(reg)}

IsStack(o) == o.kind \in {"GlobalStack", "ExtruderStack"}

\* findDefinitionContainers(id = ...): the registered definitions of that id.
findDefinitionContainers(h, reg, id) ==
    {r \in Registered(reg) : h[r].kind = "definition" /\ h[r].id = id}

\* findContainersMetadata(id = ...): whatever is registered under that id.
findContainersMetadata(h, reg, id) == {r \in Registered(reg) : h[r].id = id}

\* "name", "name #2", "name #3", ...
Numbered(name, i) == IF i = 1 THEN name ELSE name \o " #" \o ToString(i)

\* The first of name, "name #2", "name #3", ... that is not in taken.
FirstFree(name, taken) ==
    LET RECURSIVE Probe(_)
        Probe(i) == IF Numbered(name, i) \in taken THEN Probe(i + 1) ELSE Numbered(name, i)
    IN Probe(1)

\* uniqueName(original): original when no registered entity uses it as its id or
\* its name, else the first free "original #k".
uniqueName(h, reg, original) ==
    FirstFree(original, {h[r].id : r \in Registered(reg)} \cup {h[r].name : r \in Registered(reg)})

\* createUniqueName("machine", "", new_name, fallback_name): unique among the
\* registered stacks only.
createUniqueName(h, reg, new_name, fallback_name) ==
    LET stacks == {r \in Registered(reg) : IsStack(h[r])}
    IN FirstFree(IF new_name # NoStr THEN new_name ELSE fallback_name,
                 {h[r].id : r \in stacks} \cup {h[r].name : r \in stacks})

\* addContainer(c) fails with DuplicateIdError when the id is registered already.
CanAddContainer(h, reg, c) == h[c].id \notin RegisteredIds(h, reg)

addContainer(reg, c) == Append(reg, c)

(***************************************************************************)
(* The collaborators: variant, material and quality manager.               *)
(***************************************************************************)
\* getVariantNode(definition_id, variant_name): the node's container, or NullRef.
getVariantNode(definition_id, variant_name) ==
    IF variant_name = "AA" THEN Loaded("var_AA") ELSE NullRef

\* round() of Python: to the nearest integer, a tie to the even one.
Round(hundredths) ==
    LET q == hundredths \div 100
        r == hundredths % 100
    IN IF r < 50 THEN q
       ELSE IF r > 50 THEN q + 1
       ELSE IF q % 2 = 0 THEN q ELSE q + 1

\* getRootMaterialIDForDiameter(root_material_id, approximate_diameter)
getRootMaterialIDForDiameter(root_material_id, approximate_material_diameter) ==
    IF approximate_material_diameter = "3" THEN root_material_id
    ELSE root_material_id \o "_175"

\* getMaterialNode(definition_id, variant_name, diameter, root_material_id):
\* the node's container, or NullRef.
getMaterialNode(definition_id, variant_name, material_diameter, root_material_id) ==
    IF variant_name = "AA" /\ root_material_id = "pla" THEN Loaded("pla_AA")
    ELSE IF variant_name = NoStr /\ root_material_id = "pla" THEN Loaded("pla_generic")
    ELSE IF variant_name = NoStr /\ root_material_id = "pla_175" THEN Loaded("pla_175_generic")
    ELSE NullRef

\* The quality profiles the quality manager knows, by quality type.
QualityProfiles ==
    [normal |-> [node_for_global |-> "normal_global",
                 nodes_for_extruders |-> [p \in {"0", "1"} |-> "normal_" \o p]],
     fine |-> [node_for_global |-> "fine_global",
               nodes_for_extruders |-> [p \in {"0"} |-> "fine_" \o p]]]

\* The positions at which a global stack has an extruder.
ExtruderPositions(stack) == {stack.extruders[k][1] : k \in DOMAIN stack.extruders}

ExtruderAt(stack, position) ==
    LET k == CHOOSE j \in DOMAIN stack.extruders : stack.extruders[j][1] = position
    IN stack.extruders[k][2]

\* getQualityGroups(global_stack): per quality type a group, with a node for each
\* extruder the stack has at that moment.
getQualityGroups(stack) ==
    [t \in DOMAIN QualityProfiles |->
        [node_for_global |-> Loaded(QualityProfiles[t].node_for_global),
         nodes_for_extruders |->
            [p \in ExtruderPositions(stack) \cap DOMAIN QualityProfiles[t].nodes_for_extruders |->
                Loaded(QualityProfiles[t].nodes_for_extruders[p])]]]

(***************************************************************************)
(* The frame of a createMachine call: its arguments, its locals, where it  *)
(* stands (pc), how it ended (result: "GlobalStack", "None", or the        *)
(* exception raised, with the statement that raised it), the registry as   *)
(* it was at the call, and the collaborator calls it made.                 *)
(***************************************************************************)
IdleFrame ==
    [pc |-> "idle", name |-> NoStr, definition_id |-> NoStr,
     variant_name |-> NoStr, variant_container |-> NullRef,
     material_container |-> NullRef, root_material_id |-> NoStr,
     generated_name |-> NoStr, new_global_stack |-> NullRef, index |-> 0,
     new_extruder_id |-> NoStr, new_extruder |-> NullRef,
     helper |-> NoStr, stack |-> NullRef, user_container |-> NullRef,
     definition_changes_container |-> NullRef, quality_group |-> <<>>,
     result |-> NoStr, raised_at |-> NoStr, registry_before |-> <<>>, asked |-> {}]

Goto(f, label) == [f EXCEPT !.pc = label]

\* An exception leaves createMachine: nothing catches it.
Raise(f, exception) ==
    [f EXCEPT !.pc = "done", !.result = exception, !.raised_at = f.pc]

machine_definition(f) == MachineDefinitions[f.definition_id]

Init ==
    /\ heap = InitHeap
    /\ registry = [k \in DOMAIN InitHeap |-> k]
    /\ run = [p \in Procs |-> IdleFrame]
    /\ calls = 0
    /\ active = {"A"}

\* Start, raising where the code logs and returns None.
StartRaising(p, name, definition_id) ==
    /\ p \in active
    /\ run[p].pc \in {"idle", "done"}
    /\ calls < MaxCalls
    /\ calls' = calls + 1
    /\ LET f == [IdleFrame EXCEPT !.name = name, !.definition_id = definition_id,
                                  !.registry_before = registry]
       IN run' = [run EXCEPT ![p] =
                    IF findDefinitionContainers(heap, registry, definition_id) = {}
                    THEN [f EXCEPT !.pc = "done", !.result = "RuntimeError"]
                    ELSE Goto(f, "variant")]
    /\ UNCHANGED <<heap, registry, active>>

\* Lines 25-38: the call, and the look-up of the machine definition.
Start(p, name, definition_id) ==
    /\ p \in active
    /\ run[p].pc \in {"idle", "done"}
    /\ calls < MaxCalls
    /\ calls' = calls + 1
    /\ LET f == [IdleFrame EXCEPT !.name = name, !.definition_id = definition_id,
                                  !.registry_before = registry]
       IN run' = [run EXCEPT ![p] =
                    IF findDefinitionContainers(heap, registry, definition_id) = {}
                    THEN [f EXCEPT !.pc = "done", !.result = "None"]
                    ELSE Goto(f, "variant")]
    /\ UNCHANGED <<heap, registry, active>>

\* resolveVariant, falling back to the empty container when the node is missing.
resolveVariantFallingBack(f) ==
    LET md == machine_definition(f)
        variant_name == md.preferred_variant_name
        node == getVariantNode(f.definition_id, variant_name)
    IN IF ~md.has_variants
       THEN [f EXCEPT !.pc = "material", !.variant_container = empty_variant_container]
       ELSE IF variant_name = NoStr
       THEN [f EXCEPT !.pc = "material", !.variant_container = empty_variant_container]
       ELSE [f EXCEPT !.pc = "material", !.variant_name = variant_name,
                      !.variant_container =
                          IF node = NullRef THEN empty_variant_container ELSE node,
                      !.asked = @ \cup {"getVariantNode"}]

\* Lines 40-51: the variant container for the extruders.
resolveVariant(f) ==
    LET md == machine_definition(f)
        variant_name == md.preferred_variant_name
        node == getVariantNode(f.definition_id, variant_name)
    IN IF ~md.has_variants
       THEN [f EXCEPT !.pc = "material", !.variant_container = empty_variant_container]
       ELSE IF variant_name = NoStr
       THEN [f EXCEPT !.pc = "material", !.variant_container = empty_variant_container]
       ELSE IF node = NullRef
       THEN Raise([f EXCEPT !.variant_name = variant_name,
                            !.asked = @ \cup {"getVariantNode"}], "RuntimeError")
       ELSE [f EXCEPT !.pc = "material", !.variant_name = variant_name,
                      !.variant_container = node, !.asked = @ \cup {"getVariantNode"}]

\* ResolveVariant with line 68 moved before line 40: the name of the machine is
\* generated before the variant is resolved.
ResolveVariantNamingFirst(p) ==
    /\ run[p].pc = "variant"
    /\ run' = [run EXCEPT ![p] =
                [resolveVariant(@) EXCEPT !.generated_name =
                    createUniqueName(heap, registry, run[p].name,
                                     machine_definition(run[p]).name)]]
    /\ UNCHANGED <<heap, registry, calls, active>>

ResolveVariant(p) ==
    /\ run[p].pc = "variant"
    /\ run' = [run EXCEPT ![p] = resolveVariant(run[p])]
    /\ UNCHANGED <<heap, registry, calls, active>>

\* resolveMaterial, falling back to the empty container when the node is missing.
resolveMaterialFallingBack(f) ==
    LET md == machine_definition(f)
        material_diameter == md.material_diameter
        approximate_material_diameter == ToString(Round(material_diameter))
        root_material_id == getRootMaterialIDForDiameter(md.preferred_material,
                                                         approximate_material_diameter)
        node == getMaterialNode(f.definition_id, f.variant_name, material_diameter,
                                root_material_id)
        g == [f EXCEPT !.root_material_id = root_material_id,
                       !.asked = @ \cup {"getRootMaterialIDForDiameter", "getMaterialNode"}]
    IN IF ~md.has_materials
       THEN [f EXCEPT !.pc = "unique_name", !.material_container = empty_material_container]
       ELSE [g EXCEPT !.pc = "unique_name",
                      !.material_container =
                          IF node = NullRef THEN empty_material_container ELSE node]

\* Lines 53-66: the material container for the extruders.
resolveMaterial(f) ==
    LET md == machine_definition(f)
        material_diameter == md.material_diameter
        approximate_material_diameter == ToString(Round(material_diameter))
        root_material_id == getRootMaterialIDForDiameter(md.preferred_material,
                                                         approximate_material_diameter)
        node == getMaterialNode(f.definition_id, f.variant_name, material_diameter,
                                root_material_id)
        g == [f EXCEPT !.root_material_id = root_material_id,
                       !.asked = @ \cup {"getRootMaterialIDForDiameter", "getMaterialNode"}]
    IN IF ~md.has_materials
       THEN [f EXCEPT !.pc = "unique_name", !.material_container = empty_material_container]
       ELSE IF node = NullRef
       THEN Raise(g, "RuntimeError")
       ELSE [g EXCEPT !.pc = "unique_name", !.material_container = node]

ResolveMaterial(p) ==
    /\ run[p].pc = "material"
    /\ run' = [run EXCEPT ![p] = resolveMaterial(run[p])]
    /\ UNCHANGED <<heap, registry, calls, active>>

\* Line 68: the name of the machine, unique among the stacks.
CreateUniqueName(p) ==
    /\ run[p].pc = "unique_name"
    /\ run' = [run EXCEPT ![p] =
                [@ EXCEPT !.pc = "check_name",
                          !.generated_name =
                              createUniqueName(heap, registry, run[p].name,
                                               machine_definition(run[p]).name)]]
    /\ UNCHANGED <<heap, registry, calls, active>>

\* CheckGeneratedName without lines 72-73: the name createUniqueName gave is kept.
CheckGeneratedNameSkipped(p) ==
    /\ run[p].pc = "check_name"
    /\ run' = [run EXCEPT ![p] = [@ EXCEPT !.pc = "new_stack", !.helper = "global"]]
    /\ UNCHANGED <<heap, registry, calls, active>>

\* Lines 72-75: the name must not be the id of a definition or a profile; then
\* createGlobalStack is entered.
CheckGeneratedName(p) ==
    /\ run[p].pc = "check_name"
    /\ run' = [run EXCEPT ![p] =
                [@ EXCEPT !.pc = "new_stack", !.helper = "global",
                          !.generated_name =
                              IF findContainersMetadata(heap, registry, @) # {}
                              THEN uniqueName(heap, registry, @)
                              ELSE @]]
    /\ UNCHANGED <<heap, registry, calls, active>>

(***************************************************************************)
(* createGlobalStack and createExtruderStack.  The frame's helper says     *)
(* which of the two runs; both call createUserChangesContainer and         *)
(* createDefinitionChangesContainer.                                       *)
(***************************************************************************)
\* The (position, extruder definition id) item the loop of line 87 is at.
CurrentTrain(f) == machine_definition(f).machine_extruder_trains[f.index]

\* Lines 176-177: GlobalStack(new_stack_id), setDefinition.
newGlobalStack(f) ==
    [Object("GlobalStack", f.generated_name, f.generated_name, "machine")
        EXCEPT !.definition = f.definition_id]

\* Lines 140-144: ExtruderStack(new_stack_id), setName, setDefinition, position.
newExtruderStack(f) ==
    [Object("ExtruderStack", f.new_extruder_id,
            ExtruderDefinitions[CurrentTrain(f)[2]].name, "extruder_train")
        EXCEPT !.definition = CurrentTrain(f)[2], !.position = CurrentTrain(f)[1]]

NewStack(p) ==
    /\ run[p].pc = "new_stack"
    /\ heap' = Append(heap, IF run[p].helper = "global" THEN newGlobalStack(run[p])
                            ELSE newExtruderStack(run[p]))
    /\ run' = [run EXCEPT ![p] = [@ EXCEPT !.pc = "user_changes", !.stack = Len(heap) + 1]]
    /\ UNCHANGED <<registry, calls, active>>

\* userChangesContainer without the test of line 204: the back-reference is always
\* filed under "machine".
userChangesContainerTaggedMachine(h, reg, container_name, definition_id, stack_id, is_global_stack) ==
    LET unique_container_name == uniqueName(h, reg, container_name)
    IN [Object("instance", unique_container_name, unique_container_name, "user")
           EXCEPT !.definition = definition_id, !.machine = stack_id]

\* Lines 195-209: createUserChangesContainer(new_stack_id + "_user", definition_id,
\* new_stack_id, is_global_stack).
userChangesContainer(h, reg, container_name, definition_id, stack_id, is_global_stack) ==
    LET unique_container_name == uniqueName(h, reg, container_name)
    IN [Object("instance", unique_container_name, unique_container_name, "user")
           EXCEPT !.definition = definition_id,
                  !.machine = IF is_global_stack THEN stack_id ELSE NoStr,
                  !.extruder = IF is_global_stack THEN NoStr ELSE stack_id]

CreateUserChangesContainer(p) ==
    /\ run[p].pc = "user_changes"
    /\ heap' = Append(heap, userChangesContainer(heap, registry,
                                heap[run[p].stack].id \o "_user", run[p].definition_id,
                                heap[run[p].stack].id, run[p].helper = "global"))
    /\ run' = [run EXCEPT ![p] =
                [@ EXCEPT !.pc = "definition_changes", !.user_container = Len(heap) + 1]]
    /\ UNCHANGED <<registry, calls, active>>

\* Lines 215-220: the definition-changes container, under a unique name.
definitionChangesContainer(h, reg, container_stack, container_name) ==
    LET unique_container_name == uniqueName(h, reg, container_name)
    IN [Object("instance", unique_container_name, unique_container_name,
               "definition_changes")
           EXCEPT !.definition = container_stack.definition]

CreateDefinitionChangesContainer(p) ==
    /\ run[p].pc = "definition_changes"
    /\ heap' = Append(heap, definitionChangesContainer(heap, registry, heap[run[p].stack],
                                heap[run[p].stack].id \o "_settings"))
    /\ run' = [run EXCEPT ![p] =
                [@ EXCEPT !.pc = "add_definition_changes",
                          !.definition_changes_container = Len(heap) + 1]]
    /\ UNCHANGED <<registry, calls, active>>

\* Where a frame goes after adding container c to the registry: on, or out with
\* DuplicateIdError.
AfterAdd(f, h, reg, c, next) ==
    IF CanAddContainer(h, reg, c) THEN next ELSE Raise(f, "DuplicateIdError")

RegistryAfterAdd(h, reg, c) ==
    IF CanAddContainer(h, reg, c) THEN addContainer(reg, c) ELSE reg

\* AddDefinitionChangesContainer without line 222: the container is not registered.
AddDefinitionChangesContainerSkipped(p) ==
    /\ run[p].pc = "add_definition_changes"
    /\ run' = [run EXCEPT ![p] = Goto(@, "assign_definition_changes")]
    /\ UNCHANGED <<heap, registry, calls, active>>

\* Line 222: the definition-changes container is registered.
AddDefinitionChangesContainer(p) ==
    /\ run[p].pc = "add_definition_changes"
    /\ registry' = RegistryAfterAdd(heap, registry, run[p].definition_changes_container)
    /\ run' = [run EXCEPT ![p] =
                AfterAdd(@, heap, registry, @.definition_changes_container,
                         Goto(@, "assign_definition_changes"))]
    /\ UNCHANGED <<heap, calls, active>>

\* Line 223 (and 149, 183): stack.definitionChanges.
AssignDefinitionChanges(p) ==
    /\ run[p].pc = "assign_definition_changes"
    /\ heap' = [heap EXCEPT ![run[p].stack].slots.definitionChanges =
                                run[p].definition_changes_container]
    /\ run' = [run EXCEPT ![p] = Goto(@, "assign_slots")]
    /\ UNCHANGED <<registry, calls, active>>

\* GivenSlots, with the resolved variant and material for the global stack too.
GivenSlotsResolvedForAll(f) ==
    [variant |-> f.variant_container, material |-> f.material_container,
     quality |-> empty_quality_container]

\* Lines 75-81 and 97-105: the containers createMachine passes to the helper.
GivenSlots(f) ==
    IF f.helper = "global"
    THEN [variant |-> empty_variant_container, material |-> empty_material_container,
          quality |-> empty_quality_container]
    ELSE [variant |-> f.variant_container, material |-> f.material_container,
          quality |-> empty_quality_container]

\* Lines 150-154 and 184-188: the other slots of the stack.
AssignSlots(p) ==
    /\ run[p].pc = "assign_slots"
    /\ heap' = [heap EXCEPT ![run[p].stack].slots =
                    [@ EXCEPT !.variant = GivenSlots(run[p]).variant,
                              !.material = GivenSlots(run[p]).material,
                              !.quality = GivenSlots(run[p]).quality,
                              !.qualityChanges = empty_quality_changes_container,
                              !.userChanges = run[p].user_container]]
    /\ run' = [run EXCEPT ![p] = Goto(@, "add_user_changes")]
    /\ UNCHANGED <<registry, calls, active>>

\* Where createMachine goes on when the helper returns the stack.
Returned(f) ==
    IF f.helper = "global"
    THEN [f EXCEPT !.pc = "set_name", !.new_global_stack = f.stack]
    ELSE [f EXCEPT !.pc = "set_next_stack", !.new_extruder = f.stack]

\* AddUserChangesContainer of a helper that registers the stack it built as well.
AddUserChangesContainerAndStack(p) ==
    /\ run[p].pc = "add_user_changes"
    /\ registry' = RegistryAfterAdd(heap,
                        RegistryAfterAdd(heap, registry, run[p].user_container),
                        run[p].stack)
    /\ run' = [run EXCEPT ![p] =
                AfterAdd(@, heap, registry, @.user_container, Returned(@))]
    /\ UNCHANGED <<heap, calls, active>>

\* Lines 159-161 and 190-192: the user-changes container is registered, and the
\* helper returns.
AddUserChangesContainer(p) ==
    /\ run[p].pc = "add_user_changes"
    /\ registry' = RegistryAfterAdd(heap, registry, run[p].user_container)
    /\ run' = [run EXCEPT ![p] =
                AfterAdd(@, heap, registry, @.user_container, Returned(@))]
    /\ UNCHANGED <<heap, calls, active>>

(***************************************************************************)
(* createMachine, from the return of createGlobalStack on.                 *)
(***************************************************************************)
\* Lines 82-85: setName, and the extruder trains of the definition.
SetName(p) ==
    /\ run[p].pc = "set_name"
    /\ heap' = [heap EXCEPT ![run[p].new_global_stack].name = run[p].generated_name]
    /\ run' = [run EXCEPT ![p] = [@ EXCEPT !.pc = "extruder_loop", !.index = 1]]
    /\ UNCHANGED <<registry, calls, active>>

\* checkExtruderPosition without the comparison of the positions.
checkExtruderPositionUnchecked(f, h, reg) ==
    LET trains == machine_definition(f).machine_extruder_trains
        found == findDefinitionContainers(h, reg, trains[f.index][2])
    IN IF f.index > Len(trains) THEN Goto(f, "lookup_quality")
       ELSE IF found = {} THEN Raise(f, "IndexError")
       ELSE Goto(f, "extruder_id")

\* Lines 87-94: the next item of the extruder trains, and the check of its position.
checkExtruderPosition(f, h, reg) ==
    LET trains == machine_definition(f).machine_extruder_trains
        position == trains[f.index][1]
        extruder_definition_id == trains[f.index][2]
        found == findDefinitionContainers(h, reg, extruder_definition_id)
        extruder_definition == CHOOSE r \in found : TRUE
    IN IF f.index > Len(trains) THEN Goto(f, "lookup_quality")
       ELSE IF found = {} THEN Raise(f, "IndexError")
       ELSE IF h[extruder_definition].position # position THEN Raise(f, "RuntimeError")
       ELSE Goto(f, "extruder_id")

CheckExtruderPosition(p) ==
    /\ run[p].pc = "extruder_loop"
    /\ run' = [run EXCEPT ![p] = checkExtruderPosition(@, heap, registry)]
    /\ UNCHANGED <<heap, registry, calls, active>>

\* Lines 96-97: the id of the new extruder stack; createExtruderStack is entered.
ExtruderUniqueName(p) ==
    /\ run[p].pc = "extruder_id"
    /\ run' = [run EXCEPT ![p] =
                [@ EXCEPT !.pc = "new_stack", !.helper = "extruder",
                          !.new_extruder_id =
                              uniqueName(heap, registry, CurrentTrain(run[p])[2])]]
    /\ UNCHANGED <<heap, registry, calls, active>>

\* SetNextStack without line 106: the extruder is not linked to the global stack.
SetNextStackSkipped(p) ==
    /\ run[p].pc = "set_next_stack"
    /\ run' = [run EXCEPT ![p] = Goto(@, "add_extruder")]
    /\ UNCHANGED <<heap, registry, calls, active>>

\* Line 106: ExtruderStack.setNextStack.
SetNextStack(p) ==
    /\ run[p].pc = "set_next_stack"
    /\ heap' = [heap EXCEPT ![run[p].new_extruder].nextStack = run[p].new_global_stack]
    /\ run' = [run EXCEPT ![p] = Goto(@, "add_extruder")]
    /\ UNCHANGED <<registry, calls, active>>

\* GlobalStack.addExtruder: under the extruder's position, which must be free.
CanAddExtruder(stack, extruder) == extruder.position \notin ExtruderPositions(stack)

\* AddExtruder without line 107: the extruder is not attached.
AddExtruderSkipped(p) ==
    /\ run[p].pc = "add_extruder"
    /\ run' = [run EXCEPT ![p] = Goto(@, "register_extruder")]
    /\ UNCHANGED <<heap, registry, calls, active>>

\* Line 107: the extruder is attached to the global stack.
AddExtruder(p) ==
    /\ run[p].pc = "add_extruder"
    /\ LET global == run[p].new_global_stack
           extruder == run[p].new_extruder
       IN IF CanAddExtruder(heap[global], heap[extruder])
          THEN /\ heap' = [heap EXCEPT ![global].extruders =
                                Append(@, <<heap[extruder].position, extruder>>)]
               /\ run' = [run EXCEPT ![p] = Goto(@, "register_extruder")]
          ELSE /\ heap' = heap
               /\ run' = [run EXCEPT ![p] = Raise(@, "DuplicatePositionError")]
    /\ UNCHANGED <<registry, calls, active>>

\* RegisterExtruder without line 108: the extruder is not registered.
RegisterExtruderSkipped(p) ==
    /\ run[p].pc = "register_extruder"
    /\ run' = [run EXCEPT ![p] = [@ EXCEPT !.pc = "extruder_loop", !.index = @ + 1]]
    /\ UNCHANGED <<heap, registry, calls, active>>

\* Line 108: the extruder is registered; the loop goes on.
RegisterExtruder(p) ==
    /\ run[p].pc = "register_extruder"
    /\ registry' = RegistryAfterAdd(heap, registry, run[p].new_extruder)
    /\ run' = [run EXCEPT ![p] =
                AfterAdd(@, heap, registry, @.new_extruder,
                         [@ EXCEPT !.pc = "extruder_loop", !.index = @ + 1])]
    /\ UNCHANGED <<heap, calls, active>>

\* Lines 110-112: the quality group of the preferred quality type.
LookupQuality(p) ==
    /\ run[p].pc = "lookup_quality"
    /\ LET preferred_quality_type == machine_definition(run[p]).preferred_quality_type
           quality_group_dict == getQualityGroups(heap[run[p].new_global_stack])
       IN run' = [run EXCEPT ![p] =
                    [@ EXCEPT !.pc = "global_quality",
                              !.asked = @ \cup {"getQualityGroups"},
                              !.quality_group =
                                  IF preferred_quality_type \in DOMAIN quality_group_dict
                                  THEN <<quality_group_dict[preferred_quality_type]>>
                                  ELSE <<>>]]
    /\ UNCHANGED <<heap, registry, calls, active>>

\* SetGlobalQuality that passes over a missing quality group: the stacks keep the
\* empty quality and the global stack is registered.
SetGlobalQualityPassingOver(p) ==
    /\ run[p].pc = "global_quality"
    /\ IF run[p].quality_group = <<>>
       THEN /\ run' = [run EXCEPT ![p] = Goto(@, "register_global")]
            /\ heap' = heap
       ELSE /\ heap' = [heap EXCEPT ![run[p].new_global_stack].slots.quality =
                                        run[p].quality_group[1].node_for_global]
            /\ run' = [run EXCEPT ![p] = [@ EXCEPT !.pc = "extruder_quality", !.index = 1]]
    /\ UNCHANGED <<registry, calls, active>>

\* Line 114: the quality of the global stack.
SetGlobalQuality(p) ==
    /\ run[p].pc = "global_quality"
    /\ IF run[p].quality_group = <<>>
       THEN /\ run' = [run EXCEPT ![p] = Raise(@, "AttributeError")]
            /\ heap' = heap
       ELSE /\ heap' = [heap EXCEPT ![run[p].new_global_stack].slots.quality =
                                        run[p].quality_group[1].node_for_global]
            /\ run' = [run EXCEPT ![p] = [@ EXCEPT !.pc = "extruder_quality", !.index = 1]]
    /\ UNCHANGED <<registry, calls, active>>

\* SetExtruderQuality without lines 115-116: the extruders keep their quality.
SetExtruderQualitySkipped(p) ==
    /\ run[p].pc = "extruder_quality"
    /\ run' = [run EXCEPT ![p] = Goto(@, "register_global")]
    /\ UNCHANGED <<heap, registry, calls, active>>

\* Lines 115-116: the quality of each extruder of the global stack.
SetExtruderQuality(p) ==
    /\ run[p].pc = "extruder_quality"
    /\ LET extruders == heap[run[p].new_global_stack].extruders
           position == extruders[run[p].index][1]
           extruder_stack == extruders[run[p].index][2]
           nodes_for_extruders == run[p].quality_group[1].nodes_for_extruders
       IN IF run[p].index > Len(extruders)
          THEN /\ run' = [run EXCEPT ![p] = Goto(@, "register_global")]
               /\ heap' = heap
          ELSE IF position \notin DOMAIN nodes_for_extruders
          THEN /\ run' = [run EXCEPT ![p] = Raise(@, "KeyError")]
               /\ heap' = heap
          ELSE /\ heap' = [heap EXCEPT ![extruder_stack].slots.quality =
                                            nodes_for_extruders[position]]
               /\ run' = [run EXCEPT ![p] = [@ EXCEPT !.index = @ + 1]]
    /\ UNCHANGED <<registry, calls, active>>

\* Lines 120-122: the global stack is registered and returned.
RegisterGlobalStack(p) ==
    /\ run[p].pc = "register_global"
    /\ registry' = RegistryAfterAdd(heap, registry, run[p].new_global_stack)
    /\ run' = [run EXCEPT ![p] =
                AfterAdd(@, heap, registry, @.new_global_stack,
                         [@ EXCEPT !.pc = "done", !.result = "GlobalStack"])]
    /\ UNCHANGED <<heap, calls, active>>

\* A statement of the createMachine call of p.
Step(p) ==
        \/ ResolveVariant(p)
        \/ ResolveMaterial(p)
        \/ CreateUniqueName(p)
        \/ CheckGeneratedName(p)
        \/ NewStack(p)
        \/ CreateUserChangesContainer(p)
        \/ CreateDefinitionChangesContainer(p)
        \/ AddDefinitionChangesContainer(p)
        \/ AssignDefinitionChanges(p)
        \/ AssignSlots(p)
        \/ AddUserChangesContainer(p)
        \/ SetName(p)
        \/ CheckExtruderPosition(p)
        \/ ExtruderUniqueName(p)
        \/ SetNextStack(p)
        \/ AddExtruder(p)
        \/ RegisterExtruder(p)
        \/ LookupQuality(p)
        \/ SetGlobalQuality(p)
        \/ SetExtruderQuality(p)
        \/ RegisterGlobalStack(p)

Next ==
    \E p \in Procs :
        \/ \E name \in Names, definition_id \in DefinitionIds : Start(p, name, definition_id)
        \/ Step(p)

Spec == Init /\ [][Next]_vars

\* A caller that repeats its call: after its first call, the same name and the
\* same definition id again.
StartAgain(p, name, definition_id) ==
    /\ run[p].pc = "done" => (name = run[p].name /\ definition_id = run[p].definition_id)
    /\ Start(p, name, definition_id)

NextRepeat ==
    \E p \in Procs :
        \/ \E name \in Names, definition_id \in DefinitionIds :
                StartAgain(p, name, definition_id)
        \/ Step(p)

SpecRepeat == Init /\ [][NextRepeat]_vars

(***************************************************************************)
(* The host.  A host that serializes the constructions lets one caller     *)
(* run, call after call; a host that does not lets two callers run, and a  *)
(* caller may be overtaken by the other wherever it is about to read or    *)
(* write the registry.  The two callers construct machines of the same     *)
(* name, of a definition that resolves.                                    *)
(***************************************************************************)
HostNames == {"My Printer", "ext_l"}

HostDefinitions == {"um2"}

Serialized == Cardinality(active) = 1

\* The statements that read or write the registry: createUniqueName (68),
\* findContainersMetadata and uniqueName (72-73, 96, 197, 215), addContainer (108,
\* 120, 159, 190, 222), findDefinitionContainers (88).
RegistryStatements ==
    {"unique_name", "check_name", "user_changes", "definition_changes",
     "add_definition_changes", "add_user_changes", "extruder_loop", "extruder_id",
     "register_extruder", "register_global"}

\* The caller q is not running, or is about to read or write the registry.
Parked(q) == run[q].pc \in RegistryStatements \cup {"idle", "done"}

OthersParked(p) == \A q \in Procs \ {p} : Parked(q)

InitHost ==
    /\ heap = InitHeap
    /\ registry = [k \in DOMAIN InitHeap |-> k]
    /\ run = [p \in Procs |-> IdleFrame]
    /\ calls = 0
    /\ active \in {{"A"}, Procs}

\* A call for the name the other callers have asked for.
StartSame(p, name, definition_id) ==
    /\ OthersParked(p)
    /\ \A q \in Procs \ {p} : run[q].pc # "idle" => name = run[q].name
    /\ Start(p, name, definition_id)

HostStep(p) == OthersParked(p) /\ Step(p)

NextHost ==
    \E p \in Procs :
        \/ \E name \in HostNames, definition_id \in HostDefinitions :
                StartSame(p, name, definition_id)
        \/ HostStep(p)

SpecHost == InitHost /\ [][NextHost]_vars

(***************************************************************************)
(* What the properties speak of.                                           *)
(***************************************************************************)
Done(p) == run[p].pc = "done"

Succeeded(p) == Done(p) /\ run[p].result = "GlobalStack"

\* The call ended with an exception.
Failed(p) == Done(p) /\ run[p].result \notin {"GlobalStack", "None"}

\* The call found its machine definition.
Found(p) == run[p].pc # "idle" /\ run[p].definition_id \in MachineDefinitionIds

\* The references added to the registry since the call of p.
AddedSince(p) ==
    SubSeq(registry, Len(run[p].registry_before) + 1, Len(registry))

AddedOfKind(p, kind) ==
    {k \in DOMAIN AddedSince(p) : heap[AddedSince(p)[k]].kind = kind}

Trains(p) == machine_definition(run[p]).machine_extruder_trains

\* The positions machine_extruder_trains declares.
DeclaredPositions(p) == {Trains(p)[k][1] : k \in DOMAIN Trains(p)}

\* The statements of the extruder loop, lines 87-108.
LoopStatements ==
    {"extruder_loop", "extruder_id", "new_stack", "user_changes", "definition_changes",
     "add_definition_changes", "assign_definition_changes", "assign_slots",
     "add_user_changes", "set_next_stack", "add_extruder", "register_extruder"}

\* The exception of p arose in the extruder loop.
RaisedInLoop(p) ==
    /\ Failed(p)
    /\ run[p].new_global_stack # NullRef
    /\ run[p].raised_at \in LoopStatements

\* The items of machine_extruder_trains whose extruder definition has another
\* position than the item's key.
Mismatches(p) ==
    {k \in DOMAIN Trains(p) : ExtruderDefinitions[Trains(p)[k][2]].position # Trains(p)[k][1]}

GlobalOf(p) == heap[run[p].new_global_stack]

(***************************************************************************)
(* C1.  In every run of createMachine the GlobalStack is the last entity   *)
(* added to the registry: the step that registers it finds an              *)
(* ExtruderStack attached to it and registered for every position the      *)
(* definition declares, puts it at the end of the registry, and the run    *)
(* adds nothing to the registry after it.                                  *)
(***************************************************************************)
C1_GlobalStackRegisteredLast ==
    [][\A p \in Procs :
        LET g == run[p].new_global_stack
        IN /\ (g # NullRef /\ g \notin Registered(registry) /\ g \in Registered(registry'))
                => /\ \A position \in DeclaredPositions(p) :
                        /\ position \in ExtruderPositions(heap[g])
                        /\ heap[ExtruderAt(heap[g], position)].kind = "ExtruderStack"
                        /\ ExtruderAt(heap[g], position) \in Registered(registry)
                   /\ registry' = Append(registry, g)
           /\ (g # NullRef /\ g \in Registered(registry) /\ calls' = calls)
                => registry' = registry]_vars

C1_Witness ==
    \E p \in Procs :
        /\ Succeeded(p)
        /\ Len(Trains(p)) = 2
        /\ registry[Len(registry)] = run[p].new_global_stack

(***************************************************************************)
(* C2.  When createMachine ends with an exception, no GlobalStack is       *)
(* among the entities added to the registry since the call, and the        *)
(* GlobalStack the run built is not registered.                            *)
(***************************************************************************)
C2_NoGlobalStackAfterError ==
    \A p \in Procs :
        Failed(p) =>
            /\ AddedOfKind(p, "GlobalStack") = {}
            /\ run[p].new_global_stack \notin Registered(registry)

C2_Witness ==
    \E p \in Procs :
        /\ Failed(p)
        /\ run[p].raised_at = "extruder_loop"
        /\ run[p].index = 2
        /\ Len(AddedSince(p)) > 0

(***************************************************************************)
(* C3, as claimed.  When the machine definition lists an extruder          *)
(* definition under another position than its own, createMachine raises    *)
(* and the registry is afterwards what it was before the call.             *)
(***************************************************************************)
C3_MismatchRegistersNothing ==
    \A p \in Procs :
        (Done(p) /\ Found(p) /\ Mismatches(p) # {})
            => /\ run[p].result = "RuntimeError"
               /\ registry = run[p].registry_before

(***************************************************************************)
(* C3, amended.  With such a mismatch createMachine raises RuntimeError    *)
(* and registers no stack for the mismatching item and no GlobalStack:     *)
(* when the exception arises at the check of item k, the registry holds,   *)
(* beyond what it held before the call, exactly the user-changes and       *)
(* definition-changes containers of the GlobalStack and, for each of the   *)
(* k - 1 items before, the ExtruderStack and its two containers.           *)
(***************************************************************************)
C3_MismatchRegistersNoGlobalStack ==
    \A p \in Procs :
        (Done(p) /\ Found(p) /\ Mismatches(p) # {})
            => /\ run[p].result = "RuntimeError"
               /\ AddedOfKind(p, "GlobalStack") = {}
               /\ run[p].raised_at = "extruder_loop"
                    => /\ run[p].index \in Mismatches(p)
                       /\ \A k \in Mismatches(p) : run[p].index <= k
                       /\ Cardinality(AddedOfKind(p, "ExtruderStack")) = run[p].index - 1
                       /\ Cardinality(AddedOfKind(p, "instance")) = 2 * run[p].index
                       /\ Len(AddedSince(p)) = 3 * run[p].index - 1

C3_Witness ==
    \E p \in Procs :
        /\ Done(p) /\ Found(p) /\ Mismatches(p) # {}
        /\ run[p].raised_at = "extruder_loop"
        /\ run[p].index = 2

(***************************************************************************)
(* C4.  createMachine does not roll back: when an exception arises in      *)
(* iteration k of the extruder loop, the user-changes and the              *)
(* definition-changes container of the GlobalStack and, for each of the    *)
(* k - 1 iterations before, the ExtruderStack with its user-changes and    *)
(* its definition-changes container are in the registry after the call.    *)
(***************************************************************************)
RegisteredWithContainers(r) ==
    /\ r \in Registered(registry)
    /\ heap[r].slots.userChanges \in Registered(registry)
    /\ heap[heap[r].slots.userChanges].type = "user"
    /\ heap[r].slots.definitionChanges \in Registered(registry)
    /\ heap[heap[r].slots.definitionChanges].type = "definition_changes"

C4_NoRollback ==
    \A p \in Procs :
        RaisedInLoop(p) =>
            /\ GlobalOf(p).slots.userChanges \in Registered(registry)
            /\ heap[GlobalOf(p).slots.userChanges].type = "user"
            /\ GlobalOf(p).slots.definitionChanges \in Registered(registry)
            /\ heap[GlobalOf(p).slots.definitionChanges].type = "definition_changes"
            /\ Len(GlobalOf(p).extruders) = run[p].index - 1
            /\ \A k \in 1 .. run[p].index - 1 :
                /\ GlobalOf(p).extruders[k][1] = Trains(p)[k][1]
                /\ heap[GlobalOf(p).extruders[k][2]].kind = "ExtruderStack"
                /\ heap[GlobalOf(p).extruders[k][2]].definition = Trains(p)[k][2]
                /\ RegisteredWithContainers(GlobalOf(p).extruders[k][2])

C4_Witness ==
    \E p \in Procs : RaisedInLoop(p) /\ run[p].index = 2

(***************************************************************************)
(* C5.  When no definition of the given id is registered, createMachine    *)
(* returns None without raising, the registry is what it was before the    *)
(* call, and the call has created no stack and no container.               *)
(***************************************************************************)
C5_UnknownDefinitionReturnsNone ==
    \A p \in Procs :
        (run[p].pc # "idle"
            /\ findDefinitionContainers(heap, run[p].registry_before, run[p].definition_id) = {})
            => /\ Done(p)
               /\ run[p].result = "None"
               /\ run[p].raised_at = NoStr
               /\ registry = run[p].registry_before
               /\ run[p].stack = NullRef
               /\ run[p].new_global_stack = NullRef
               /\ run[p].user_container = NullRef
               /\ run[p].definition_changes_container = NullRef

C5_Witness ==
    \E p \in Procs :
        /\ Done(p)
        /\ run[p].definition_id = "ghost"
        /\ run[p].result = "None"
        /\ calls = 2

(***************************************************************************)
(* C6.  When createMachine succeeds for a definition that declares N       *)
(* extruder positions, the call has registered exactly N ExtruderStacks    *)
(* and exactly one GlobalStack, the one it returns, and that GlobalStack   *)
(* has exactly one ExtruderStack at each declared position and at no       *)
(* other.                                                                  *)
(***************************************************************************)
C6_OneStackPerPosition ==
    \A p \in Procs :
        Succeeded(p) =>
            /\ Cardinality(AddedOfKind(p, "ExtruderStack")) = Cardinality(DeclaredPositions(p))
            /\ Cardinality(AddedOfKind(p, "GlobalStack")) = 1
            /\ \A k \in AddedOfKind(p, "GlobalStack") :
                    AddedSince(p)[k] = run[p].new_global_stack
            /\ ExtruderPositions(GlobalOf(p)) = DeclaredPositions(p)
            /\ Len(GlobalOf(p).extruders) = Cardinality(DeclaredPositions(p))
            /\ \A k \in DOMAIN GlobalOf(p).extruders :
                /\ heap[GlobalOf(p).extruders[k][2]].kind = "ExtruderStack"
                /\ heap[GlobalOf(p).extruders[k][2]].position = GlobalOf(p).extruders[k][1]
                /\ \E j \in AddedOfKind(p, "ExtruderStack") :
                        AddedSince(p)[j] = GlobalOf(p).extruders[k][2]

C6_Witness ==
    \E p \in Procs :
        /\ Succeeded(p)
        /\ Cardinality(DeclaredPositions(p)) = 2
        /\ calls = 2

\* The extruder stacks attached to the global stack of p.
ExtrudersOf(p) == {GlobalOf(p).extruders[k][2] : k \in DOMAIN GlobalOf(p).extruders}

\* The call of p is past the variant step, and past the material step.
PastVariant(p) == Found(p) /\ run[p].pc # "variant"

PastMaterial(p) == PastVariant(p) /\ run[p].pc # "material" /\ run[p].raised_at # "variant"

\* createMachine raised at that statement, before anything was built.
RaisedEarly(p, statement) ==
    /\ Done(p)
    /\ run[p].result = "RuntimeError"
    /\ run[p].raised_at = statement
    /\ run[p].new_global_stack = NullRef
    /\ registry = run[p].registry_before

(***************************************************************************)
(* C7, as claimed.  For every definition that declares has_variants,       *)
(* createMachine asks the variant manager for the preferred variant; when  *)
(* none is resolved it raises at once, and no successful run gives an      *)
(* extruder the empty variant container.                                   *)
(***************************************************************************)
C7_VariantMissAlwaysRaises ==
    \A p \in Procs :
        (PastVariant(p) /\ machine_definition(run[p]).has_variants)
            => /\ "getVariantNode" \in run[p].asked
               /\ \/ RaisedEarly(p, "variant")
                  \/ run[p].variant_container \notin {NullRef, empty_variant_container}
               /\ Succeeded(p) =>
                    \A e \in ExtrudersOf(p) :
                        heap[e].slots.variant # empty_variant_container

(***************************************************************************)
(* C7, amended.  For every definition that declares has_variants and a     *)
(* non-empty preferred_variant_name, createMachine asks the variant        *)
(* manager for that variant; when there is no such node it raises          *)
(* RuntimeError at once, with nothing built or registered, and otherwise   *)
(* every extruder of a successful run holds the node's container, never    *)
(* the empty one.  For a definition that declares has_variants and no      *)
(* preferred_variant_name, the variant manager is not asked, nothing is    *)
(* raised at that step, and the extruders get the empty variant container. *)
(***************************************************************************)
C7_NamedVariantMissRaises ==
    \A p \in Procs :
        (PastVariant(p) /\ machine_definition(run[p]).has_variants)
            => LET md == machine_definition(run[p])
                   node == getVariantNode(run[p].definition_id, md.preferred_variant_name)
               IN IF md.preferred_variant_name # NoStr
                  THEN /\ "getVariantNode" \in run[p].asked
                       /\ IF node = NullRef
                          THEN RaisedEarly(p, "variant")
                          ELSE /\ run[p].raised_at # "variant"
                               /\ run[p].variant_container = node
                               /\ node # empty_variant_container
                               /\ Succeeded(p) =>
                                    \A e \in ExtrudersOf(p) : heap[e].slots.variant = node
                  ELSE /\ "getVariantNode" \notin run[p].asked
                       /\ run[p].raised_at # "variant"
                       /\ run[p].variant_container = empty_variant_container
                       /\ Succeeded(p) =>
                            \A e \in ExtrudersOf(p) :
                                heap[e].slots.variant = empty_variant_container

C7_Witness ==
    \E p \in Procs :
        /\ Found(p)
        /\ machine_definition(run[p]).has_variants
        /\ machine_definition(run[p]).preferred_variant_name = "ZZ"
        /\ RaisedEarly(p, "variant")

(***************************************************************************)
(* C8.  For every definition that declares has_materials, createMachine    *)
(* asks the material manager for the root material of the preferred        *)
(* material at the diameter rounded to the nearest integer, and then for   *)
(* the material node of (definition, variant name, diameter, that root     *)
(* material); when there is no node it raises RuntimeError at once, and    *)
(* otherwise it goes on with the node's container, never with the empty    *)
(* material container.                                                     *)
(***************************************************************************)
\* The integers that are nearest to a diameter given in hundredths.
Nearest(hundredths) ==
    {a \in 0 .. 10 : 100 * a <= hundredths + 50 /\ hundredths <= 100 * a + 50}

C8_MaterialMissRaises ==
    \A p \in Procs :
        (PastMaterial(p) /\ machine_definition(run[p]).has_materials)
            => LET md == machine_definition(run[p])
                   node == getMaterialNode(run[p].definition_id, run[p].variant_name,
                                           md.material_diameter, run[p].root_material_id)
               IN /\ {"getRootMaterialIDForDiameter", "getMaterialNode"} \subseteq run[p].asked
                  /\ \E a \in Nearest(md.material_diameter) :
                        run[p].root_material_id =
                            getRootMaterialIDForDiameter(md.preferred_material, ToString(a))
                  /\ run[p].variant_name =
                        (IF md.has_variants THEN md.preferred_variant_name ELSE NoStr)
                  /\ IF node = NullRef
                     THEN RaisedEarly(p, "material")
                     ELSE /\ run[p].raised_at # "material"
                          /\ run[p].material_container = node
                          /\ node # empty_material_container
                          /\ \A e \in (IF run[p].new_global_stack = NullRef THEN {}
                                       ELSE ExtrudersOf(p)) :
                                heap[e].slots.material = node

C8_Witness ==
    \E p \in Procs :
        /\ Found(p)
        /\ machine_definition(run[p]).has_materials
        /\ RaisedEarly(p, "material")

(***************************************************************************)
(* C9, as claimed.  After a successful createMachine the variant and the   *)
(* material slot of the GlobalStack hold the empty containers, and those   *)
(* of every ExtruderStack hold the containers of the nodes the managers    *)
(* returned, or the empty containers when has_variants, has_materials is   *)
(* not declared.                                                           *)
(***************************************************************************)
ResolvedMaterial(p) ==
    IF machine_definition(run[p]).has_materials
    THEN getMaterialNode(run[p].definition_id, run[p].variant_name,
                         machine_definition(run[p]).material_diameter,
                         run[p].root_material_id)
    ELSE empty_material_container

GlobalSlotsEmpty(p) ==
    /\ GlobalOf(p).slots.variant = empty_variant_container
    /\ GlobalOf(p).slots.material = empty_material_container

C9_ExtrudersHoldResolvedContainers ==
    \A p \in Procs :
        Succeeded(p) =>
            /\ GlobalSlotsEmpty(p)
            /\ \A e \in ExtrudersOf(p) :
                /\ heap[e].slots.variant =
                    (IF machine_definition(run[p]).has_variants
                     THEN getVariantNode(run[p].definition_id,
                                         machine_definition(run[p]).preferred_variant_name)
                     ELSE empty_variant_container)
                /\ heap[e].slots.material = ResolvedMaterial(p)

(***************************************************************************)
(* C9, amended.  The same, with the empty variant container in the         *)
(* extruders also when has_variants is declared without a                  *)
(* preferred_variant_name.                                                 *)
(***************************************************************************)
C9_ExtrudersHoldResolvedOrEmpty ==
    \A p \in Procs :
        Succeeded(p) =>
            /\ GlobalSlotsEmpty(p)
            /\ ExtrudersOf(p) # {}
            /\ \A e \in ExtrudersOf(p) :
                /\ heap[e].slots.variant =
                    (IF /\ machine_definition(run[p]).has_variants
                        /\ machine_definition(run[p]).preferred_variant_name # NoStr
                     THEN getVariantNode(run[p].definition_id,
                                         machine_definition(run[p]).preferred_variant_name)
                     ELSE empty_variant_container)
                /\ heap[e].slots.variant # NullRef
                /\ heap[e].slots.material = ResolvedMaterial(p)
                /\ heap[e].slots.material # NullRef

C9_Witness ==
    \E p \in Procs :
        /\ Succeeded(p)
        /\ machine_definition(run[p]).has_variants
        /\ machine_definition(run[p]).has_materials
        /\ \E e \in ExtrudersOf(p) :
            /\ heap[e].slots.variant # empty_variant_container
            /\ heap[e].slots.material # empty_material_container

(***************************************************************************)
(* C10.  The quality groups are asked for only when an extruder is         *)
(* attached to the GlobalStack at every declared position, and after a     *)
(* successful createMachine the quality slot of the GlobalStack holds the  *)
(* global container of the group of preferred_quality_type and the quality *)
(* slot of the ExtruderStack at each position holds that group's           *)
(* container for the position; none holds the empty quality container.     *)
(***************************************************************************)
C10_QualityApplied ==
    \A p \in Procs :
        /\ "getQualityGroups" \in run[p].asked
            => /\ ExtruderPositions(GlobalOf(p)) = DeclaredPositions(p)
               /\ \A e \in ExtrudersOf(p) : heap[e].nextStack = run[p].new_global_stack
        /\ Succeeded(p)
            => LET type == machine_definition(run[p]).preferred_quality_type
               IN /\ "getQualityGroups" \in run[p].asked
                  /\ type \in DOMAIN QualityProfiles
                  /\ GlobalOf(p).slots.quality = Loaded(QualityProfiles[type].node_for_global)
                  /\ GlobalOf(p).slots.quality # empty_quality_container
                  /\ \A position \in DeclaredPositions(p) :
                        LET e == heap[ExtruderAt(GlobalOf(p), position)]
                        IN /\ position \in DOMAIN QualityProfiles[type].nodes_for_extruders
                           /\ e.slots.quality =
                                Loaded(QualityProfiles[type].nodes_for_extruders[position])
                           /\ e.slots.quality # empty_quality_container

C10_Witness ==
    \E p \in Procs :
        /\ Succeeded(p)
        /\ Cardinality(DeclaredPositions(p)) = 2
        /\ machine_definition(run[p]).preferred_quality_type = "normal"

\* The generated name of the call of p has been allocated.
NameAllocated(p) == Found(p) /\ run[p].helper # NoStr

\* The ids, and the ids and names of the stacks, registered when p was called.
IdsBefore(p) == RegisteredIds(heap, run[p].registry_before)

StackNamesBefore(p) ==
    LET stacks == {r \in Registered(run[p].registry_before) : IsStack(heap[r])}
    IN {heap[r].id : r \in stacks} \cup {heap[r].name : r \in stacks}

NamesBefore(p) ==
    IdsBefore(p) \cup {heap[r].name : r \in Registered(run[p].registry_before)}

(***************************************************************************)
(* C11.  The id and the name of the GlobalStack createMachine builds are   *)
(* the generated name.  With base the requested name, or the name of the   *)
(* definition when the requested name is empty, the generated name is      *)
(* first the least "base #k" no registered stack has as id or name, and    *)
(* then, when that is the id of a registered entity, the least             *)
(* "(base #k) #j" no registered entity has as id or name.  It is the id of *)
(* no entity registered when it is allocated.                              *)
(***************************************************************************)
C11_GeneratedName ==
    \A p \in Procs :
        NameAllocated(p) =>
            LET base == IF run[p].name # NoStr THEN run[p].name
                        ELSE machine_definition(run[p]).name
                g == run[p].new_global_stack
            IN /\ run[p].generated_name \notin IdsBefore(p)
               /\ \E k \in 1 .. 2 * calls + 1 :
                    /\ Numbered(base, k) \notin StackNamesBefore(p)
                    /\ \A i \in 1 .. k - 1 : Numbered(base, i) \in StackNamesBefore(p)
                    /\ IF Numbered(base, k) \notin IdsBefore(p)
                       THEN run[p].generated_name = Numbered(base, k)
                       ELSE \E j \in 1 .. 2 * calls + 1 :
                            /\ run[p].generated_name = Numbered(Numbered(base, k), j)
                            /\ Numbered(Numbered(base, k), j) \notin NamesBefore(p)
                            /\ \A i \in 1 .. j - 1 :
                                    Numbered(Numbered(base, k), i) \in NamesBefore(p)
               /\ g # NullRef =>
                    /\ heap[g].kind = "GlobalStack"
                    /\ heap[g].id = run[p].generated_name
                    /\ heap[g].name = run[p].generated_name

C11_Witness ==
    \E p \in Procs :
        /\ NameAllocated(p)
        /\ run[p].name = "ext_l"
        /\ run[p].generated_name = "ext_l #3"
        /\ run[p].new_global_stack # NullRef
        /\ run[p].pc = "extruder_loop"

\* A definition the collaborators resolve and whose extruder trains are listed under
\* their own positions.
Resolvable(d) ==
    LET md == MachineDefinitions[d]
        variant_name == IF md.has_variants THEN md.preferred_variant_name ELSE NoStr
        root == getRootMaterialIDForDiameter(md.preferred_material,
                                             ToString(Round(md.material_diameter)))
        trains == md.machine_extruder_trains
    IN /\ variant_name # NoStr => getVariantNode(d, variant_name) # NullRef
       /\ md.has_materials =>
            getMaterialNode(d, variant_name, md.material_diameter, root) # NullRef
       /\ \A k \in DOMAIN trains : ExtruderDefinitions[trains[k][2]].position = trains[k][1]
       /\ md.preferred_quality_type \in DOMAIN QualityProfiles
       /\ \A k \in DOMAIN trains :
            trains[k][1] \in DOMAIN QualityProfiles[md.preferred_quality_type].nodes_for_extruders

\* No two registered entities have the same id.
UniqueIds ==
    \A i, j \in DOMAIN registry :
        heap[registry[i]].id = heap[registry[j]].id => i = j

\* The name a call asks for: the requested name, or the name of the definition.
BaseName(p) ==
    IF run[p].name # NoStr THEN run[p].name ELSE machine_definition(run[p]).name

RegisteredGlobalStackIds ==
    {heap[r].id : r \in {x \in Registered(registry) : heap[x].kind = "GlobalStack"}}

(***************************************************************************)
(* C12.  When a caller repeats createMachine with the same name and the    *)
(* same resolvable definition, every call succeeds, the call number k      *)
(* returns a GlobalStack whose id is the name (k = 1) or "name #k", so     *)
(* that the registered GlobalStacks have the ids name, "name #2", ...,     *)
(* "name #k", and no two registered entities have the same id.             *)
(***************************************************************************)
C12_RepeatedCallsSucceed ==
    \A p \in Procs :
        /\ UniqueIds
        /\ (Done(p) /\ Found(p) /\ Resolvable(run[p].definition_id))
            => /\ Succeeded(p)
               /\ GlobalOf(p).id = Numbered(BaseName(p), calls)
               /\ RegisteredGlobalStackIds = {Numbered(BaseName(p), k) : k \in 1 .. calls}

\* The statements of a run that call registry.addContainer (lines 222, 159 and 190,
\* 108, 120).
AddStatements == {"add_definition_changes", "add_user_changes", "register_extruder",
                  "register_global"}

\* The entity the statement a run is at passes to addContainer.
Pending(p) ==
    CASE run[p].pc = "add_definition_changes" -> run[p].definition_changes_container
      [] run[p].pc = "add_user_changes" -> run[p].user_container
      [] run[p].pc = "register_extruder" -> run[p].new_extruder
      [] run[p].pc = "register_global" -> run[p].new_global_stack

(***************************************************************************)
(* C13.  Within a run of createMachine, the id of each entity is unused    *)
(* in the registry at the moment the entity is passed to addContainer, and *)
(* no run ends with DuplicateIdError.                                      *)
(***************************************************************************)
C13_AllocatedIdsStillUnused ==
    \A p \in Procs :
        /\ run[p].pc \in AddStatements => CanAddContainer(heap, registry, Pending(p))
        /\ run[p].result # "DuplicateIdError"

\* The statements of a helper at which the stack's user-changes container exists
\* (after lines 146 and 179), and those at which its definition-changes container
\* exists (after line 220).
WithUserChanges == {"definition_changes", "add_definition_changes",
                    "assign_definition_changes", "assign_slots", "add_user_changes"}

WithDefinitionChanges == {"add_definition_changes", "assign_definition_changes",
                          "assign_slots", "add_user_changes"}

\* The containers the helper a run is in has created for the stack it builds.
CreatedByHelper(p) ==
    (IF run[p].pc \in WithUserChanges THEN {run[p].user_container} ELSE {})
        \cup (IF run[p].pc \in WithDefinitionChanges
              THEN {run[p].definition_changes_container} ELSE {})

\* All the slots of a stack have been assigned.
Wired(stack) == \A s \in SlotNames : stack.slots[s] # NullRef

(***************************************************************************)
(* C14.  While createGlobalStack or createExtruderStack builds a stack, a  *)
(* container the helper has created for it (user-changes or                *)
(* definition-changes) is in the registry only when all the slots of the   *)
(* stack have been assigned.                                               *)
(***************************************************************************)
C14_HelperContainersRegisteredAfterWiring ==
    \A p \in Procs :
        \A c \in CreatedByHelper(p) :
            c \in Registered(registry) => Wired(heap[run[p].stack])

\* The extruder stack r is linked to the global stack g.
Linked(r, g) == heap[r].nextStack = g

\* The extruder stack r is in the extruder map of the global stack g, under its own
\* position.
Attached(r, g) ==
    \E k \in DOMAIN heap[g].extruders : heap[g].extruders[k] = <<heap[r].position, r>>

\* The extruder stacks the call of p has added to the registry.
RegisteredExtruders(p) ==
    {AddedSince(p)[k] : k \in AddedOfKind(p, "ExtruderStack")}

(***************************************************************************)
(* C15.  For each extruder position createMachine builds, links, attaches  *)
(* and registers the ExtruderStack, in this order: a stack about to be     *)
(* attached is linked and neither attached nor registered, a stack about   *)
(* to be registered is linked and attached, and every ExtruderStack in the *)
(* registry is linked to a GlobalStack (the new one, for the stacks of the *)
(* current call) and is in its extruder map under its own position.        *)
(***************************************************************************)
C15_ExtruderLinkedAttachedRegistered ==
    /\ \A r \in Registered(registry) :
            heap[r].kind = "ExtruderStack"
                => /\ heap[r].nextStack # NullRef
                   /\ heap[heap[r].nextStack].kind = "GlobalStack"
                   /\ Attached(r, heap[r].nextStack)
    /\ \A p \in Procs :
        /\ Found(p) => \A r \in RegisteredExtruders(p) : Linked(r, run[p].new_global_stack)
        /\ run[p].pc = "set_next_stack"
            => /\ heap[run[p].new_extruder].nextStack = NullRef
               /\ run[p].new_extruder \notin Registered(registry)
        /\ run[p].pc = "add_extruder"
            => /\ Linked(run[p].new_extruder, run[p].new_global_stack)
               /\ ~Attached(run[p].new_extruder, run[p].new_global_stack)
               /\ run[p].new_extruder \notin Registered(registry)
        /\ run[p].pc = "register_extruder"
            => /\ Linked(run[p].new_extruder, run[p].new_global_stack)
               /\ Attached(run[p].new_extruder, run[p].new_global_stack)
               /\ run[p].new_extruder \notin Registered(registry)

\* Both extruders of a two-extruder machine are registered, linked and attached,
\* and the global stack is not registered yet.
C15_Witness ==
    \E p \in Procs :
        /\ Found(p)
        /\ run[p].pc = "lookup_quality"
        /\ Cardinality(RegisteredExtruders(p)) = 2
        /\ \A r \in RegisteredExtruders(p) :
            Linked(r, run[p].new_global_stack) /\ Attached(r, run[p].new_global_stack)
        /\ {heap[r].position : r \in RegisteredExtruders(p)} = {"0", "1"}
        /\ run[p].new_global_stack \notin Registered(registry)

\* The statements createMachine is at when createGlobalStack (line 82) or
\* createExtruderStack (line 106) has just returned.
HelperReturned(p) == run[p].pc \in {"set_name", "set_next_stack"}

\* The container c was created by the call of p and belongs to no other stack.
Fresh(p, c, slot) ==
    /\ c # NullRef
    /\ c \notin Registered(run[p].registry_before)
    /\ \A r \in DOMAIN heap : (r # run[p].stack /\ IsStack(heap[r])) => heap[r].slots[slot] # c

(***************************************************************************)
(* C16.  When createGlobalStack or createExtruderStack returns, the        *)
(* stack's userChanges slot holds a fresh registered container of type     *)
(* user whose 'machine' (global stack) or 'extruder' (extruder stack)      *)
(* metadata is the id of the stack, its definitionChanges slot holds a     *)
(* fresh registered container of type definition_changes, its              *)
(* qualityChanges slot holds the empty placeholder, and the stack is not   *)
(* in the registry.                                                        *)
(***************************************************************************)
C16_HelperResult ==
    \A p \in Procs :
        HelperReturned(p)
            => LET stack == heap[run[p].stack]
                   user == stack.slots.userChanges
                   changes == stack.slots.definitionChanges
               IN /\ Fresh(p, user, "userChanges")
                  /\ user \in Registered(registry)
                  /\ heap[user].type = "user"
                  /\ stack.kind = "GlobalStack"
                        => heap[user].machine = stack.id /\ heap[user].extruder = NoStr
                  /\ stack.kind = "ExtruderStack"
                        => heap[user].extruder = stack.id /\ heap[user].machine = NoStr
                  /\ Fresh(p, changes, "definitionChanges")
                  /\ changes \in Registered(registry)
                  /\ heap[changes].type = "definition_changes"
                  /\ user # changes
                  /\ stack.slots.qualityChanges = empty_quality_changes_container
                  /\ run[p].stack \notin Registered(registry)

\* createExtruderStack has returned the stack of the second extruder: its user
\* changes carry the stack's id under 'extruder'.
C16_Witness ==
    \E p \in Procs :
        /\ run[p].pc = "set_next_stack"
        /\ run[p].index = 2
        /\ heap[run[p].stack].kind = "ExtruderStack"
        /\ heap[heap[run[p].stack].slots.userChanges].extruder = heap[run[p].stack].id
        /\ heap[heap[run[p].stack].slots.userChanges].id = heap[run[p].stack].id \o "_user"
        /\ heap[run[p].stack].slots.userChanges \in Registered(registry)
        /\ heap[run[p].stack].slots.definitionChanges \in Registered(registry)
        /\ run[p].stack \notin Registered(registry)

\* The quality manager has no group of the preferred quality type of the definition
\* of p.
NoQualityGroup(p) ==
    machine_definition(run[p]).preferred_quality_type \notin DOMAIN QualityProfiles

\* The group of the preferred quality type has no container for a declared position.
NoExtruderQuality(p) ==
    /\ ~NoQualityGroup(p)
    /\ \E position \in DeclaredPositions(p) :
        position \notin DOMAIN
            QualityProfiles[machine_definition(run[p]).preferred_quality_type].nodes_for_extruders

\* The call of p ended with an exception of lines 114-116.
RaisedAtQuality(p) ==
    Failed(p) /\ run[p].raised_at \in {"global_quality", "extruder_quality"}

(***************************************************************************)
(* C17.  A call that has asked for the quality groups and gets no group of *)
(* the preferred quality type, or a group without a container for one of   *)
(* the extruder positions, ends with an exception.  At that point an       *)
(* ExtruderStack is registered, linked and attached for every declared     *)
(* position, the quality slot of the GlobalStack holds the empty           *)
(* placeholder unless a group was found (then the group's global           *)
(* container), and the GlobalStack is not in the registry.                 *)
(***************************************************************************)
C17_QualityMissRaises ==
    \A p \in Procs :
        /\ (Done(p) /\ Found(p) /\ "getQualityGroups" \in run[p].asked
                /\ (NoQualityGroup(p) \/ NoExtruderQuality(p)))
            => RaisedAtQuality(p)
        /\ RaisedAtQuality(p)
            => /\ NoQualityGroup(p) \/ NoExtruderQuality(p)
               /\ NoQualityGroup(p) <=> run[p].result = "AttributeError"
               /\ NoExtruderQuality(p) <=> run[p].result = "KeyError"
               /\ ExtruderPositions(GlobalOf(p)) = DeclaredPositions(p)
               /\ ExtrudersOf(p) = RegisteredExtruders(p)
               /\ \A e \in ExtrudersOf(p) :
                    Linked(e, run[p].new_global_stack) /\ Attached(e, run[p].new_global_stack)
               /\ GlobalOf(p).slots.quality =
                    IF run[p].quality_group = <<>> THEN empty_quality_container
                    ELSE run[p].quality_group[1].node_for_global
               /\ NoQualityGroup(p) => GlobalOf(p).slots.quality = empty_quality_container
               /\ run[p].new_global_stack \notin Registered(registry)
               /\ AddedOfKind(p, "GlobalStack") = {}

\* A call for a definition whose quality type has no group has raised and left its
\* GlobalStack with the empty quality, and the call after it, for a definition whose
\* group lacks an extruder position, has raised with the global quality set.
C17_Witness ==
    \E p \in Procs :
        /\ RaisedAtQuality(p)
        /\ NoExtruderQuality(p)
        /\ run[p].result = "KeyError"
        /\ GlobalOf(p).slots.quality # empty_quality_container
        /\ Cardinality(RegisteredExtruders(p)) = 2
        /\ run[p].new_global_stack \notin Registered(registry)
        /\ \E g \in DOMAIN heap :
            /\ heap[g].kind = "GlobalStack"
            /\ heap[g].definition = "bad_quality"
            /\ heap[g].slots.quality = empty_quality_container
            /\ heap[g].extruders # <<>>
            /\ g \notin Registered(registry)

\* The call of p is at steps 2-3 (variant, material), or has ended in steps 1-3:
\* definition not found, variant miss, material miss.
InResolution(p) ==
    \/ run[p].pc \in {"variant", "material"}
    \/ Done(p) /\ run[p].result = "None"
    \/ Done(p) /\ run[p].result = "RuntimeError" /\ run[p].raised_at \in {"variant", "material"}

EndedInResolution(p) == Done(p) /\ InResolution(p)

\* The frame of p holds no allocated id and no created stack or container.
NothingAllocated(f) ==
    /\ f.generated_name = NoStr
    /\ f.new_extruder_id = NoStr
    /\ f.stack = NullRef
    /\ f.new_global_stack = NullRef
    /\ f.new_extruder = NullRef
    /\ f.user_container = NullRef
    /\ f.definition_changes_container = NullRef

(***************************************************************************)
(* C18.  Every statement of createMachine up to the end of the material    *)
(* resolution, and every end of the call there (None for an unknown        *)
(* definition, RuntimeError for a variant or material miss), leaves the    *)
(* registry as it was before the call, creates no object, and has          *)
(* allocated no id.                                                        *)
(***************************************************************************)
C18_EarlyFailuresChangeNothing ==
    [][\A p \in Procs :
            InResolution(p)'
                => /\ registry' = run'[p].registry_before
                   /\ registry' = registry
                   /\ heap' = heap
                   /\ NothingAllocated(run'[p])]_vars

\* The second call has failed at the material resolution and left the registry as
\* the first call, which created objects, left it.
C18_Witness ==
    \E p \in Procs :
        /\ EndedInResolution(p)
        /\ run[p].raised_at = "material"
        /\ calls = 2
        /\ registry = run[p].registry_before
        /\ Len(registry) > Len(InitHeap)
        /\ NothingAllocated(run[p])

\* The stacks and containers the call of p has created and holds in its frame.
EntitiesOf(p) ==
    {run[p].new_global_stack, run[p].new_extruder, run[p].stack, run[p].user_container,
     run[p].definition_changes_container} \ {NullRef}

\* An addContainer has failed with DuplicateIdError, or two entities of the running
\* constructions carry the same id.
Clash ==
    \/ \E p \in Procs : run[p].result = "DuplicateIdError"
    \/ \E p, q \in Procs :
        \E e \in EntitiesOf(p), o \in EntitiesOf(q) : e # o /\ heap[e].id = heap[o].id

(***************************************************************************)
(* C19.  createMachine is not safe to interleave: when the host does not   *)
(* serialize two constructions of the same name, a state is reachable in   *)
(* which an addContainer fails with DuplicateIdError or two entities carry *)
(* the same id (C19_InterleavedClash is such a state); when the host       *)
(* serializes the constructions no such state is reachable.                *)
(***************************************************************************)
C19_SerializedNeverClashes == Serialized => ~Clash

\* Two interleaved constructions of the same name have given their GlobalStacks
\* the same id, and the one that registered second has ended with
\* DuplicateIdError.
C19_InterleavedClash ==
    /\ active = Procs
    /\ run["A"].name = "My Printer"
    /\ run["B"].name = "My Printer"
    /\ run["A"].generated_name = run["B"].generated_name
    /\ \E p \in Procs :
        /\ run[p].result = "DuplicateIdError"
        /\ run[p].raised_at \in AddStatements
====
